---------------------------- MODULE Spec2Model ----------------------------
(***************************************************************************)
(* mkdbupgrade: a model of src/src/lib.rs (branch lookup, version          *)
(* extraction, upgrade enumeration and diff, the two file writers, the     *)
(* editor launch) and of src/src/main.rs (the run of main: pre-assembly    *)
(* checks, creation of the output file, the ordered writes, review).       *)
(*                                                                         *)
(* Text is a sequence of string tokens.  In file contents the tokens are   *)
(* lexemes: "BEGIN" and "COMMIT" are the two keywords, ";" and "\n" are    *)
(* themselves, " " is white space and "x" is any other text.               *)
(***************************************************************************)
EXTENDS Integers, Sequences, FiniteSets, TLC

VARIABLES
    \* ---- the run of main (src/src/main.rs) ----
    pc,            \* position in main
    cli,           \* the parsed command line (struct Cli)
    repository,    \* get_repository(): "none" before, then "ok"
    to_branch,     \* name of the current branch (token sequence), <<>> before
    from_branch,   \* name of the resolved source branch, <<>> before
    version,       \* target version string, "" before
    from_version,  \* source version string, "" before
    upgrades,      \* the new-upgrade list returned by get_upgrades
    moved,         \* the local Vec moved of main
    i,             \* index of the loop in progress
    outfile,       \* the File handle: "none", "open", "closed"
    disk0,         \* the file at out_path when the run starts
    disk,          \* the file at out_path now
    editor,        \* "none", "launched", "failed"
    exit_code,     \* -1 while running, then the exit status
    stderr,        \* the diagnostic printed, "" if none
    \* ---- get_upgrades applied to two tree snapshots ----
    d_pc, d_from, d_to, d_res,
    \* ---- the file writers applied to one file ----
    fw_pc, fw_in, fw_out

mainVars == <<pc, cli, repository, to_branch, from_branch, version, from_version,
              upgrades, moved, i, outfile, disk0, disk, editor, exit_code, stderr>>
diffVars == <<d_pc, d_from, d_to, d_res>>
fwVars   == <<fw_pc, fw_in, fw_out>>
\* what a run of main leaves alone
others   == <<diffVars, fwVars>>
\* what a step of main that does not end the run leaves alone
noExit   == <<exit_code, stderr>>
vars     == <<mainVars, diffVars, fwVars>>

---------------------------------------------------------------------------
(* Bounds *)

\* number of distinct upgrade file names in the tree snapshots of a run of main
NumNames == 3
\* number of distinct upgrade file names in the tree snapshots get_upgrades is
\* applied to on its own (these may hold subdirectories)
DiffNames == 2
\* longest file (in tokens) the file writers are applied to
MaxFileLen == 5

---------------------------------------------------------------------------
(* Generic helpers *)

Range(s) == {s[k] : k \in 1..Len(s)}

SeqsUpTo(S, n) == UNION {[1..k -> S] : k \in 0..n}

RECURSIVE Flatten(_)
Flatten(ss) == IF ss = <<>> THEN <<>> ELSE Head(ss) \o Flatten(Tail(ss))

IsPrefix(s, t) == Len(s) <= Len(t) /\ SubSeq(t, 1, Len(s)) = s

\* the elements of a set of integers in increasing order
RECURSIVE SortedSeq(_)
SortedSeq(S) ==
    IF S = {} THEN <<>>
    ELSE LET m == CHOOSE x \in S : \A y \in S : x <= y
         IN  <<m>> \o SortedSeq(S \ {m})

\* Result<T, Box<dyn Error>>
Ok(v)  == [ok |-> TRUE,  val |-> v,    err |-> ""]
Err(e) == [ok |-> FALSE, val |-> <<>>, err |-> e]

---------------------------------------------------------------------------
(* lib.rs: get_branch_version *)

Digits == {"0", "1", "2", "3", "4", "5", "6", "7", "8", "9"}

IsDigit(s, k) == k <= Len(s) /\ s[k] \in Digits

\* \d{1,2} at position k (greedy): the number of digits taken, 0 if none.
\* What follows a group is "_" or the end of the pattern, so taking one digit
\* where two are present never lets the rest match: greedy is the only choice.
DigitRun(s, k) == IF ~IsDigit(s, k) THEN 0 ELSE IF IsDigit(s, k + 1) THEN 2 ELSE 1

\* digits s[k..k+n-1] as one string
DigitStr(s, k, n) == IF n = 2 THEN s[k] \o s[k + 1] ELSE s[k]

\* _(\d{1,2})_(\d{1,2})_(\d{1,2}) matched at position k: <<x, y, z>> or <<>>
VersionAt(s, k) ==
    IF ~(k <= Len(s) /\ s[k] = "_") THEN <<>>
    ELSE LET n1 == DigitRun(s, k + 1)
             k2 == k + 1 + n1
         IN  IF n1 = 0 \/ ~(k2 <= Len(s) /\ s[k2] = "_") THEN <<>>
             ELSE LET n2 == DigitRun(s, k2 + 1)
                      k3 == k2 + 1 + n2
                  IN  IF n2 = 0 \/ ~(k3 <= Len(s) /\ s[k3] = "_") THEN <<>>
                      ELSE LET n3 == DigitRun(s, k3 + 1)
                           IN  IF n3 = 0 THEN <<>>
                               ELSE << DigitStr(s, k + 1, n1),
                                       DigitStr(s, k2 + 1, n2),
                                       DigitStr(s, k3 + 1, n3) >>

\* regex.captures: the leftmost match.  "" stands for None.
get_branch_version(name) ==
    LET hits == {k \in 1..Len(name) : VersionAt(name, k) # <<>>}
    IN  IF hits = {} THEN ""
        ELSE LET k == CHOOSE h \in hits : \A g \in hits : h <= g
                 c == VersionAt(name, k)
             IN  c[1] \o "." \o c[2] \o "." \o c[3]

---------------------------------------------------------------------------
(* lib.rs: get_branch_upgrades, get_upgrades *)

dirpath == "Open-ILS/src/sql/Pg/upgrade"

NumToks  == <<"0001", "0002", "0003", "0004", "0005", "0006">>
\* the k-th upgrade file name: odd ones are schema upgrades, even ones data
Name(k)  == <<NumToks[k], IF k % 2 = 1 THEN ".schema.sql" ELSE ".data.sql">>

\* format!("{}/{}", dirpath, n)
UpgradePath(n) == <<dirpath, "/">> \o n

\* the names a kid list of a subdirectory may hold: none or one
KidSeqs(n) == {<<>>} \cup {<<Name(k)>> : k \in 1..n}

EntryKinds(n) == {e \in [tree : BOOLEAN, kids : KidSeqs(n)] : ~e.tree => e.kids = <<>>}

\* the entries of an upgrade directory: git keeps them sorted by name, and
\* each is a blob or a subdirectory (tree) with its own entries
TreesOver(S, n) ==
    LET idx == SortedSeq(S)
    IN  {[k \in 1..Len(idx) |-> [name |-> Name(idx[k]), tree |-> f[idx[k]].tree,
                                 kids |-> f[idx[k]].kids]] : f \in [S -> EntryKinds(n)]}

FlatTreesOver(S) ==
    LET idx == SortedSeq(S)
    IN  {[k \in 1..Len(idx) |-> [name |-> Name(idx[k]), tree |-> FALSE, kids |-> <<>>]]}

\* what Open-ILS/src/sql/Pg/upgrade is in a branch's tree snapshot
NoDir      == [dir |-> "absent", entries |-> <<>>]
BlobAtDir  == [dir |-> "blob",   entries |-> <<>>]
DirOf(es)  == [dir |-> "tree",   entries |-> es]

\* snapshots over DiffNames names, subdirectories included
Snapshots     == {NoDir, BlobAtDir}
                   \cup {DirOf(es) : es \in UNION {TreesOver(S, DiffNames) :
                                                     S \in SUBSET (1..DiffNames)}}
\* snapshots over NumNames names whose upgrade directory holds files only
FlatSnapshots == {NoDir, BlobAtDir}
                   \cup {DirOf(es) : es \in UNION {FlatTreesOver(S) : S \in SUBSET (1..NumNames)}}

\* an upgrade directory with a subdirectory, whose file has the name of a file
\* of the directory itself
NestedDir == DirOf(<< [name |-> Name(1), tree |-> TRUE,  kids |-> <<Name(2)>>],
                      [name |-> Name(2), tree |-> FALSE, kids |-> <<>>] >>)

\* the snapshots a run of main may find in the repository
RunSnapshots == FlatSnapshots \cup {NestedDir}

\* dir_tree.walk(TreeWalkMode::PreOrder, ...): every entry, a subdirectory
\* before its own entries; the callback pushes dirpath/<entry name>
RECURSIVE Walk(_)
Walk(es) ==
    IF es = <<>> THEN <<>>
    ELSE LET e == Head(es)
         IN  <<UpgradePath(e.name)>>
               \o (IF e.tree THEN [k \in 1..Len(e.kids) |-> UpgradePath(e.kids[k])] ELSE <<>>)
               \o Walk(Tail(es))

\* (mutant) a missing directory enumerated as the empty list
get_branch_upgrades_Mut(snap) ==
    IF snap.dir = "tree" THEN Ok(Walk(snap.entries)) ELSE Ok(<<>>)

get_branch_upgrades(snap) ==
    IF snap.dir = "absent" THEN Err("path not found")      \* tree.get_path is Err
    ELSE IF snap.dir = "tree" THEN Ok(Walk(snap.entries))
    ELSE Ok(<<>>)                                           \* the entry is no tree

\* Vec::contains: a linear search by string equality
RECURSIVE Contains(_, _)
Contains(list, item) ==
    IF list = <<>> THEN FALSE
    ELSE IF Head(list) = item THEN TRUE
    ELSE Contains(Tail(list), item)

\* (mutant) the filter without its negation
RECURSIVE FilterNew_Mut(_, _)
FilterNew_Mut(to_upgrades, from_upgrades) ==
    IF to_upgrades = <<>> THEN <<>>
    ELSE (IF Contains(from_upgrades, Head(to_upgrades)) THEN <<Head(to_upgrades)>> ELSE <<>>)
           \o FilterNew_Mut(Tail(to_upgrades), from_upgrades)

\* to_upgrades.into_iter().filter(|item| !from_upgrades.contains(item)).collect()
RECURSIVE FilterNew(_, _)
FilterNew(to_upgrades, from_upgrades) ==
    IF to_upgrades = <<>> THEN <<>>
    ELSE (IF ~Contains(from_upgrades, Head(to_upgrades)) THEN <<Head(to_upgrades)>> ELSE <<>>)
           \o FilterNew(Tail(to_upgrades), from_upgrades)

get_upgrades(from, to) ==
    LET f == get_branch_upgrades(from)
    IN  IF ~f.ok THEN f
        ELSE LET t == get_branch_upgrades(to)
             IN  IF ~t.ok THEN t
                 ELSE Ok(FilterNew(t.val, f.val))

---------------------------------------------------------------------------
(* lib.rs: write_file, write_upgrade *)

Alphabet == {"BEGIN", "COMMIT", ";", "\n", " ", "x"}

\* str::split_terminator("\n"): the pieces between the "\n"s, without a
\* last piece that is empty
RECURSIVE SplitLines(_, _)
SplitLines(s, cur) ==
    IF s = <<>> THEN (IF cur = <<>> THEN <<>> ELSE <<cur>>)
    ELSE IF Head(s) = "\n" THEN <<cur>> \o SplitLines(Tail(s), <<>>)
    ELSE SplitLines(Tail(s), Append(cur, Head(s)))

split_terminator(s) == SplitLines(s, <<>>)

\* (mutant) the regex without its anchor
re_is_match_Mut(line) ==
    \E k \in 1..(Len(line) - 1) : line[k] \in {"BEGIN", "COMMIT"} /\ line[k + 1] = ";"

\* Regex "^(?:BEGIN|COMMIT);" on one line
re_is_match(line) ==
    /\ Len(line) >= 2
    /\ line[1] \in {"BEGIN", "COMMIT"}
    /\ line[2] = ";"

\* the writeln! calls of write_upgrade, one per line kept
RECURSIVE UpgradeWrites(_)
UpgradeWrites(lines) ==
    IF lines = <<>> THEN <<>>
    ELSE (IF ~re_is_match(Head(lines)) THEN <<Head(lines) \o <<"\n">> >> ELSE <<>>)
           \o UpgradeWrites(Tail(lines))

\* what write_upgrade writes for a file it could read, all writes succeeding
write_upgrade(content) == Flatten(UpgradeWrites(split_terminator(content)))

\* what write_file writes for a file it could read: write_all(lines.as_bytes())
write_file(content) == content

---------------------------------------------------------------------------
(* The file writers applied to one file *)

\* some files of a working directory
FileBoth  == <<"BEGIN", ";", "\n", "x", "\n", "COMMIT", ";", "\n">>
FileOpen  == <<"x", "\n", " ", "BEGIN", ";", "\n", "COMMIT", ";", "x">>
FilePlain == <<"x", "\n">>
FileTxn   == <<"COMMIT", ";", "\n">>
SampleFiles == {FileBoth, FileOpen, FilePlain, FileTxn}

FWFiles == SeqsUpTo(Alphabet, MaxFileLen) \cup SampleFiles

FWInit ==
    /\ fw_pc = "start"
    /\ fw_in \in FWFiles
    /\ fw_out = <<>>

FWWriteFile ==
    /\ fw_pc = "start"
    /\ fw_out' = fw_out \o write_file(fw_in)
    /\ fw_pc' = "write_file"
    /\ UNCHANGED <<fw_in, mainVars, diffVars>>

FWWriteUpgrade ==
    /\ fw_pc = "start"
    /\ fw_out' = fw_out \o write_upgrade(fw_in)
    /\ fw_pc' = "write_upgrade"
    /\ UNCHANGED <<fw_in, mainVars, diffVars>>

---------------------------------------------------------------------------
(* get_upgrades applied to two tree snapshots *)

DiffInit ==
    /\ d_pc = "start"
    /\ d_from \in Snapshots
    /\ d_to \in Snapshots
    /\ d_res = Err("")

DiffGetUpgrades ==
    /\ d_pc = "start"
    /\ d_res' = get_upgrades(d_from, d_to)
    /\ d_pc' = "done"
    /\ UNCHANGED <<d_from, d_to, mainVars, fwVars>>

---------------------------------------------------------------------------
(* main.rs: the inputs of a run *)

\* Option<Vec<String>> and Option<String>
None     == [some |-> FALSE, v |-> <<>>]
Some(x)  == [some |-> TRUE,  v |-> x]

\* branch names, character by character
RelTo     == <<"r", "e", "l", "_", "3", "_", "1", "2", "_", "1">>
RelFrom   == <<"r", "e", "l", "_", "3", "_", "2", "_", "1", "-", "h", "o", "t", "f", "i", "x">>
MainName  == <<"m", "a", "i", "n">>
TwoComp   == <<"v", "_", "1", "_", "2">>
HeadNames == {RelTo, MainName}
FromNames == {RelFrom, TwoComp}

\* -m patterns: literal fragments; "(" alone is not a regular expression
PatData   == <<".data.sql">>
Pat0001   == <<"0001">>
Pat0003   == <<"0003">>
PatBad    == <<"(">>
MoveArgs  == {None, Some(<<PatData>>), Some(<<Pat0001, Pat0003>>), Some(<<PatBad>>)}

PrependArgs == {None, Some(<< <<"pre1.sql">>, <<"pre2.sql">> >>)}
AppendArgs  == {None, Some(<< <<"post1.sql">> >>)}

\* clap gives None, never Some of an empty Vec, for an option that was not given
CliArgs ==
    [from_branch  : FromNames,
     from_version : {"", "3.1.0"},          \* "" is None
     version      : {"", "3.2.0"},          \* "" is None
     moved        : MoveArgs,
     append_file  : AppendArgs,
     prepend_file : PrependArgs,
     clobber      : BOOLEAN,
     review       : BOOLEAN]

\* the files of the working directory that a run may read

ContentsOf(path) ==
    IF path = <<"pre1.sql">> THEN {FilePlain}
    ELSE IF path = <<"pre2.sql">> THEN {FileTxn}
    ELSE IF path = <<"post1.sql">> THEN {FileOpen}
    ELSE IF path[3] \in {"0001", "0004"} THEN {FileBoth}
    ELSE IF path[3] \in {"0002", "0005"} THEN {FileOpen}
    ELSE {FileTxn}

\* the file at out_path
NoFile      == [exists |-> FALSE, chunks |-> <<>>]
FileOf(cs)  == [exists |-> TRUE,  chunks |-> cs]

\* one write to the output file: who wrote it, for which input file and in
\* which mode, what was read and what reached the file
Chunk(by, path, mode, src, text, complete) ==
    [by |-> by, path |-> path, mode |-> mode, src |-> src, text |-> text,
     complete |-> complete]
Lit(by, text) == Chunk(by, <<>>, "lit", <<>>, text, TRUE)
OldChunk      == Lit("old", <<"x", "\n">>)

\* the bytes of the file
Bytes(d) == Flatten([k \in 1..Len(d.chunks) |-> d.chunks[k].text])

---------------------------------------------------------------------------
(* main.rs: the run of main *)

RunInit ==
    /\ pc = "get_repository"
    /\ cli \in CliArgs
    /\ repository = "none"
    /\ to_branch = <<>>
    /\ from_branch = <<>>
    /\ version = ""
    /\ from_version = ""
    /\ upgrades = <<>>
    /\ moved = <<>>
    /\ i = 0
    /\ outfile = "none"
    /\ disk0 \in {NoFile, FileOf(<<OldChunk>>)}
    /\ disk = disk0
    /\ editor = "none"
    /\ exit_code = -1
    /\ stderr = ""

\* eprintln!(msg) and exit(code), or a panic (code 101) with its message;
\* a run that ends well prints nothing
Exit(code, msg) ==
    /\ pc' = "exit"
    /\ exit_code' = code
    /\ stderr' = msg

\* a write that fails leaves some proper prefix of its text in the file
FailedWrite(c) ==
    \E n \in 0..(Len(c.text) - 1) :
        disk' = [disk EXCEPT !.chunks =
                    Append(@, [c EXCEPT !.text = SubSeq(c.text, 1, n), !.complete = FALSE])]

GoodWrite(c) == disk' = [disk EXCEPT !.chunks = Append(@, c)]

\* writeln!(&mut outfile, ...).expect("Unable to write to output")
Writeln(by, text, next) ==
    LET c == Lit(by, text)
    IN  \/ GoodWrite(c) /\ pc' = next /\ UNCHANGED noExit
        \/ FailedWrite(c) /\ Exit(101, "Unable to write to output")

\* (mutant) a file that cannot be read is reported and skipped
CallWriteFile_Mut(by, path, msg) ==
    \/ stderr' = msg /\ i' = i + 1 /\ UNCHANGED <<disk, pc, exit_code>>
    \/ \E content \in ContentsOf(path) :
          LET c == Chunk(by, path, "whole", content, write_file(content), TRUE)
          IN  \/ GoodWrite(c) /\ i' = i + 1 /\ UNCHANGED <<pc, noExit>>
              \/ FailedWrite(c) /\ Exit(1, msg) /\ UNCHANGED i

\* match write_file(&mut outfile, &file) { Ok => (), Err => exit(1) }
CallWriteFile(by, path, msg) ==
    \/ UNCHANGED <<disk, i>> /\ Exit(1, msg)            \* read_to_string fails
    \/ \E content \in ContentsOf(path) :
          LET c == Chunk(by, path, "whole", content, write_file(content), TRUE)
          IN  \/ GoodWrite(c) /\ i' = i + 1 /\ UNCHANGED <<pc, noExit>>
              \/ FailedWrite(c) /\ Exit(1, msg) /\ UNCHANGED i

\* match write_upgrade(&mut outfile, &file) { Ok => (), Err => exit(1) }
CallWriteUpgrade(by, path, msg) ==
    \/ UNCHANGED <<disk, i>> /\ Exit(1, msg)            \* read_to_string fails
    \/ \E content \in ContentsOf(path) :
          LET c == Chunk(by, path, "upgrade", content, write_upgrade(content), TRUE)
          IN  \/ GoodWrite(c) /\ i' = i + 1 /\ UNCHANGED <<pc, noExit>>
              \/ FailedWrite(c) /\ Exit(1, msg) /\ UNCHANGED i

GetRepository ==
    /\ pc = "get_repository"
    /\ \/ repository' = "ok" /\ pc' = "get_current_branch" /\ UNCHANGED noExit
       \/ Exit(1, "Current directory is not a git repository") /\ UNCHANGED repository
    /\ UNCHANGED <<others, cli, to_branch, from_branch, version, from_version, upgrades, moved,
                   i, outfile, disk0, disk, editor>>

GetCurrentBranch ==
    /\ pc = "get_current_branch"
    /\ \/ \E name \in HeadNames :
             to_branch' = name /\ pc' = "checkdir" /\ UNCHANGED noExit
       \/ Exit(1, "head is not a branch") /\ UNCHANGED to_branch   \* or head() fails
    /\ UNCHANGED <<others, cli, repository, from_branch, version, from_version, upgrades, moved,
                   i, outfile, disk0, disk, editor>>

CheckDir ==
    /\ pc = "checkdir"
    /\ \/ pc' = "find_branch" /\ UNCHANGED noExit
       \/ Exit(1, "Not in an Evergreen repository, exiting")
    /\ UNCHANGED <<others, cli, repository, to_branch, from_branch, version, from_version,
                   upgrades, moved, i, outfile, disk0, disk, editor>>

\* find_branch: a local branch, else a remote one, else the error
FindBranch ==
    /\ pc = "find_branch"
    /\ \E local \in BOOLEAN, remote \in BOOLEAN :
          IF local \/ remote
          THEN from_branch' = cli.from_branch /\ pc' = "version" /\ UNCHANGED noExit
          ELSE Exit(1, "Error finding from branch") /\ UNCHANGED from_branch
    /\ UNCHANGED <<others, cli, repository, to_branch, version, from_version, upgrades, moved,
                   i, outfile, disk0, disk, editor>>

GetVersion ==
    /\ pc = "version"
    /\ LET v == IF cli.version # "" THEN cli.version ELSE get_branch_version(to_branch)
       IN  IF v # ""
           THEN version' = v /\ pc' = "from_version" /\ UNCHANGED noExit
           ELSE Exit(1, "Specify the new Evergreen version with -v [version]")
                  /\ UNCHANGED version
    /\ UNCHANGED <<others, cli, repository, to_branch, from_branch, from_version, upgrades, moved,
                   i, outfile, disk0, disk, editor>>

GetFromVersion ==
    /\ pc = "from_version"
    /\ LET v == IF cli.from_version # "" THEN cli.from_version
                ELSE get_branch_version(from_branch)
       IN  IF v # ""
           THEN from_version' = v /\ pc' = "out_path" /\ UNCHANGED noExit
           ELSE Exit(1, "Specify the old Evergreen version with -F [version]")
                  /\ UNCHANGED from_version
    /\ UNCHANGED <<others, cli, repository, to_branch, from_branch, version, upgrades, moved,
                   i, outfile, disk0, disk, editor>>

\* (mutant) the clobber test without its negation
CheckOutPath_Mut ==
    /\ pc = "out_path"
    /\ IF disk.exists /\ cli.clobber
       THEN Exit(1, "Output file exists, exiting")
       ELSE pc' = "get_upgrades" /\ UNCHANGED noExit
    /\ UNCHANGED <<others, cli, repository, to_branch, from_branch, version, from_version,
                   upgrades, moved, i, outfile, disk0, disk, editor>>

\* if out_path.exists() && ! cli.clobber { exit(1) }
CheckOutPath ==
    /\ pc = "out_path"
    /\ IF disk.exists /\ ~cli.clobber
       THEN Exit(1, "Output file exists, exiting")
       ELSE pc' = "get_upgrades" /\ UNCHANGED noExit
    /\ UNCHANGED <<others, cli, repository, to_branch, from_branch, version, from_version,
                   upgrades, moved, i, outfile, disk0, disk, editor>>

\* the two branches' tree snapshots are read from the repository here
GetUpgrades ==
    /\ pc = "get_upgrades"
    /\ \E from \in RunSnapshots, to \in RunSnapshots :
          LET r == get_upgrades(from, to)
          IN  IF r.ok
              THEN upgrades' = r.val /\ pc' = "check_len" /\ UNCHANGED noExit
              ELSE Exit(1, r.err) /\ UNCHANGED upgrades
    /\ UNCHANGED <<others, cli, repository, to_branch, from_branch, version, from_version, moved,
                   i, outfile, disk0, disk, editor>>

\* (mutant) an empty new-upgrade list does not end the run
CheckLen_Mut ==
    /\ pc = "check_len"
    /\ pc' = "create" /\ UNCHANGED noExit
    /\ UNCHANGED <<others, cli, repository, to_branch, from_branch, version, from_version,
                   upgrades, moved, i, outfile, disk0, disk, editor>>

CheckLen ==
    /\ pc = "check_len"
    /\ IF Len(upgrades) = 0
       THEN Exit(1, "No upgrades were found. Nothing to do.")
       ELSE pc' = "create" /\ UNCHANGED noExit
    /\ UNCHANGED <<others, cli, repository, to_branch, from_branch, version, from_version,
                   upgrades, moved, i, outfile, disk0, disk, editor>>

\* File::create: creates the file, or truncates the one there
CreateFile ==
    /\ pc = "create"
    /\ \/ disk' = FileOf(<<>>) /\ outfile' = "open" /\ pc' = "prepend"
            /\ UNCHANGED noExit
       \/ Exit(1, "File::create failed") /\ UNCHANGED <<disk, outfile>>
    /\ UNCHANGED <<others, cli, repository, to_branch, from_branch, version, from_version,
                   upgrades, moved, i, disk0, editor>>

assemblyFrame == <<others, cli, repository, to_branch, from_branch, version, from_version,
                   upgrades, outfile, disk0, editor>>

PrependStart ==
    /\ pc = "prepend"
    /\ IF cli.prepend_file.some
       THEN Writeln("prepend_start", <<"-- Start of prepended code", "\n">>, "prepend_loop")
              /\ i' = 1
       ELSE pc' = "direction" /\ UNCHANGED <<disk, noExit, i>>
    /\ UNCHANGED <<assemblyFrame, moved>>

PrependFile ==
    /\ pc = "prepend_loop"
    /\ i <= Len(cli.prepend_file.v)
    /\ CallWriteFile("prepend_file", cli.prepend_file.v[i], "Error prepending file")
    /\ UNCHANGED <<assemblyFrame, moved>>

PrependEnd ==
    /\ pc = "prepend_loop"
    /\ i > Len(cli.prepend_file.v)
    /\ Writeln("prepend_end", <<"-- End of prepended code", "\n", "\n">>, "direction")
    /\ UNCHANGED <<assemblyFrame, moved, i>>

WriteDirection ==
    /\ pc = "direction"
    /\ Writeln("direction",
               <<"-- Upgrade script for Evergreen ", from_version, " to ", version, "\n">>,
               "eg_version")
    /\ UNCHANGED <<assemblyFrame, moved, i>>

WriteEgVersion ==
    /\ pc = "eg_version"
    /\ Writeln("eg_version", <<"\\set eg_version '''", version, "'''", "\n">>, "begin")
    /\ UNCHANGED <<assemblyFrame, moved, i>>

\* (mutant) the BEGIN; is not written
WriteBegin_Mut ==
    /\ pc = "begin"
    /\ pc' = "movedre"
    /\ UNCHANGED <<assemblyFrame, moved, i, disk, noExit>>

WriteBegin ==
    /\ pc = "begin"
    /\ Writeln("begin", <<"\n", "BEGIN", ";", "\n">>, "movedre")
    /\ UNCHANGED <<assemblyFrame, moved, i>>

\* is `frag` a contiguous part of `path`
Occurs(frag, path) ==
    \E k \in 0..(Len(path) - Len(frag)) : SubSeq(path, k + 1, k + Len(frag)) = frag

ValidRegex(frags) == \A k \in 1..Len(frags) : "(" \notin Range(frags[k])

\* movedre.is_match(&file): the regex (?:f1|f2|...) searched anywhere in the path
movedre_is_match(path) ==
    /\ cli.moved.some
    /\ \E k \in 1..Len(cli.moved.v) : Occurs(cli.moved.v[k], path)

\* Regex::new(&restr).unwrap(), let mut moved = Vec::new()
BuildMovedRe ==
    /\ pc = "movedre"
    /\ IF cli.moved.some /\ ~ValidRegex(cli.moved.v)
       THEN Exit(101, "called Result::unwrap() on an Err value") /\ UNCHANGED <<moved, i>>
       ELSE moved' = <<>> /\ i' = 1 /\ pc' = "upgrade_loop" /\ UNCHANGED noExit
    /\ UNCHANGED <<assemblyFrame, disk>>

\* (mutant) a moved upgrade is not skipped
UpgradeStep_Mut ==
    /\ pc = "upgrade_loop"
    /\ i <= Len(upgrades)
    /\ moved' = IF movedre_is_match(upgrades[i]) THEN Append(moved, upgrades[i]) ELSE moved
    /\ CallWriteUpgrade("upgrade", upgrades[i], "Error writing upgrade")
    /\ UNCHANGED assemblyFrame

UpgradeStep ==
    /\ pc = "upgrade_loop"
    /\ i <= Len(upgrades)
    /\ IF movedre_is_match(upgrades[i])
       THEN moved' = Append(moved, upgrades[i]) /\ i' = i + 1
              /\ UNCHANGED <<pc, disk, noExit>>
       ELSE CallWriteUpgrade("upgrade", upgrades[i], "Error writing upgrade") /\ UNCHANGED moved
    /\ UNCHANGED assemblyFrame

WriteCommit ==
    /\ pc = "upgrade_loop"
    /\ i > Len(upgrades)
    /\ Writeln("commit", <<"COMMIT", ";", "\n", "\n">>, "moved")
    /\ UNCHANGED <<assemblyFrame, moved, i>>

\* (mutant) the moved section is written whether or not anything was moved
MovedStart_Mut ==
    /\ pc = "moved"
    /\ Writeln("moved_start", <<"-- Start of moved upgrades", "\n">>, "moved_loop")
    /\ i' = 1
    /\ UNCHANGED <<assemblyFrame, moved>>

MovedStart ==
    /\ pc = "moved"
    /\ IF Len(moved) > 0
       THEN Writeln("moved_start", <<"-- Start of moved upgrades", "\n">>, "moved_loop")
              /\ i' = 1
       ELSE pc' = "auditor1" /\ UNCHANGED <<disk, noExit, i>>
    /\ UNCHANGED <<assemblyFrame, moved>>

MovedFile ==
    /\ pc = "moved_loop"
    /\ i <= Len(moved)
    /\ CallWriteFile("moved_file", moved[i], "Error writing moved upgrade")
    /\ UNCHANGED <<assemblyFrame, moved>>

MovedEnd ==
    /\ pc = "moved_loop"
    /\ i > Len(moved)
    /\ Writeln("moved_end", <<"-- End of moved upgrades", "\n", "\n">>, "auditor1")
    /\ UNCHANGED <<assemblyFrame, moved, i>>

WriteAuditor1 ==
    /\ pc = "auditor1"
    /\ Writeln("auditor1",
               <<"-- Update auditor tables to catch changes in source tables.", "\n">>,
               "auditor2")
    /\ UNCHANGED <<assemblyFrame, moved, i>>

WriteAuditor2 ==
    /\ pc = "auditor2"
    /\ Writeln("auditor2",
               <<"-- Can be removed/skipped if there were no schema changes.", "\n">>,
               "auditor3")
    /\ UNCHANGED <<assemblyFrame, moved, i>>

WriteAuditor3 ==
    /\ pc = "auditor3"
    /\ Writeln("auditor3", <<"SELECT auditor.update_auditors();", "\n">>, "append")
    /\ UNCHANGED <<assemblyFrame, moved, i>>

AppendStart ==
    /\ pc = "append"
    /\ IF cli.append_file.some
       THEN Writeln("append_start", <<"\n", "-- Start of appended code", "\n">>, "append_loop")
              /\ i' = 1
       ELSE pc' = "drop" /\ UNCHANGED <<disk, noExit, i>>
    /\ UNCHANGED <<assemblyFrame, moved>>

AppendFile ==
    /\ pc = "append_loop"
    /\ i <= Len(cli.append_file.v)
    /\ CallWriteFile("append_file", cli.append_file.v[i], "Error appending file")
    /\ UNCHANGED <<assemblyFrame, moved>>

AppendEnd ==
    /\ pc = "append_loop"
    /\ i > Len(cli.append_file.v)
    /\ Writeln("append_end", <<"-- End of appended code", "\n">>, "drop")
    /\ UNCHANGED <<assemblyFrame, moved, i>>

\* (mutant) the handle is not dropped before the review
DropOutfile_Mut ==
    /\ pc = "drop"
    /\ pc' = "review"
    /\ UNCHANGED <<others, cli, repository, to_branch, from_branch, version, from_version,
                   upgrades, moved, i, outfile, disk0, disk, editor, noExit>>

\* drop(outfile)
DropOutfile ==
    /\ pc = "drop"
    /\ outfile' = "closed"
    /\ pc' = "review"
    /\ UNCHANGED <<others, cli, repository, to_branch, from_branch, version, from_version,
                   upgrades, moved, i, disk0, disk, editor, noExit>>

\* review_file: var("EDITOR"), args[0], cmd.spawn()
Review ==
    /\ pc = "review"
    /\ IF cli.review
       THEN \/ Exit(1, "environment variable not found") /\ UNCHANGED editor
            \/ Exit(101, "index out of bounds") /\ UNCHANGED editor  \* EDITOR is blank: args[0]
            \/ editor' = "failed" /\ Exit(1, "spawn failed")
            \/ editor' = "launched" /\ Exit(0, "")
       ELSE Exit(0, "") /\ UNCHANGED editor
    /\ UNCHANGED <<others, cli, repository, to_branch, from_branch, version, from_version,
                   upgrades, moved, i, outfile, disk0, disk>>

Next ==
    \/ GetRepository \/ GetCurrentBranch \/ CheckDir \/ FindBranch
    \/ GetVersion \/ GetFromVersion \/ CheckOutPath \/ GetUpgrades \/ CheckLen
    \/ CreateFile
    \/ PrependStart \/ PrependFile \/ PrependEnd
    \/ WriteDirection \/ WriteEgVersion \/ WriteBegin
    \/ BuildMovedRe \/ UpgradeStep \/ WriteCommit
    \/ MovedStart \/ MovedFile \/ MovedEnd
    \/ WriteAuditor1 \/ WriteAuditor2 \/ WriteAuditor3
    \/ AppendStart \/ AppendFile \/ AppendEnd
    \/ DropOutfile \/ Review

DiffIdle == d_pc = "idle" /\ d_from = NoDir /\ d_to = NoDir /\ d_res = Err("")
FWIdle   == fw_pc = "idle" /\ fw_in = <<>> /\ fw_out = <<>>
MainIdle ==
    /\ pc = "idle" /\ cli \in {c \in CliArgs : FALSE} \cup {CHOOSE c \in CliArgs : TRUE}
    /\ repository = "none" /\ to_branch = <<>> /\ from_branch = <<>>
    /\ version = "" /\ from_version = "" /\ upgrades = <<>> /\ moved = <<>> /\ i = 0
    /\ outfile = "none" /\ disk0 = NoFile /\ disk = NoFile /\ editor = "none"
    /\ exit_code = -1 /\ stderr = ""

\* a run of main
Init == RunInit /\ DiffIdle /\ FWIdle
Spec == Init /\ [][Next]_vars

\* get_upgrades on every pair of small tree snapshots
InitDiff == DiffInit /\ MainIdle /\ FWIdle
DiffNext == DiffGetUpgrades
SpecDiff == InitDiff /\ [][DiffNext]_vars

\* write_file and write_upgrade on every small file
InitFW == FWInit /\ MainIdle /\ DiffIdle
FWNext == FWWriteFile \/ FWWriteUpgrade
SpecFW == InitFW /\ [][FWNext]_vars

---------------------------------------------------------------------------
(* What the claims are stated with *)

\* the lines of a text, read off the positions of its "\n"s: the stretches
\* between them, and the stretch after the last one when it is not empty
LinesOf(s) ==
    LET nl    == SortedSeq({k \in 1..Len(s) : s[k] = "\n"})
        n     == Len(nl)
        from(j) == IF j = 1 THEN 1 ELSE nl[j - 1] + 1
        last  == IF n = 0 THEN 0 ELSE nl[n]
    IN  [j \in 1..n |-> SubSeq(s, from(j), nl[j] - 1)]
          \o (IF last < Len(s) THEN <<SubSeq(s, last + 1, Len(s))>> ELSE <<>>)

\* a line that begins with BEGIN; or COMMIT;
IsMarkerLine(l) == Len(l) >= 2 /\ SubSeq(l, 1, 2) \in {<<"BEGIN", ";">>, <<"COMMIT", ";">>}

\* the lines that are no marker lines, each followed by a newline
Stripped(s) ==
    LET kept == SelectSeq(LinesOf(s), LAMBDA l : ~IsMarkerLine(l))
    IN  Flatten([k \in 1..Len(kept) |-> kept[k] \o <<"\n">>])

\* the new upgrades that go to the transactional body, and those that are moved
MainPaths  == SelectSeq(upgrades, LAMBDA p : ~movedre_is_match(p))
MovedPaths == SelectSeq(upgrades, LAMBDA p : movedre_is_match(p))

\* a write: who, for which file, in which mode
W(by, path, mode) == [by |-> by, path |-> path, mode |-> mode]
L(by) == W(by, <<>>, "lit")
Files(by, paths, mode) == [k \in 1..Len(paths) |-> W(by, paths[k], mode)]

\* the writes of a run that completes, in order (spec.md, 4.5 and 6)
ExpectedPlan ==
    (IF cli.prepend_file.some
     THEN <<L("prepend_start")>> \o Files("prepend_file", cli.prepend_file.v, "whole")
            \o <<L("prepend_end")>>
     ELSE <<>>)
    \o <<L("direction"), L("eg_version"), L("begin")>>
    \o Files("upgrade", MainPaths, "upgrade")
    \o <<L("commit")>>
    \o (IF MovedPaths # <<>>
        THEN <<L("moved_start")>> \o Files("moved_file", MovedPaths, "whole")
               \o <<L("moved_end")>>
        ELSE <<>>)
    \o <<L("auditor1"), L("auditor2"), L("auditor3")>>
    \o (IF cli.append_file.some
        THEN <<L("append_start")>> \o Files("append_file", cli.append_file.v, "whole")
               \o <<L("append_end")>>
        ELSE <<>>)

\* the lines of the output file structure (spec.md, 6)
SpecText(by) ==
    CASE by = "prepend_start" -> <<"-- Start of prepended code", "\n">>
      [] by = "prepend_end"   -> <<"-- End of prepended code", "\n", "\n">>
      [] by = "direction"     -> <<"-- Upgrade script for Evergreen ", from_version, " to ",
                                   version, "\n">>
      [] by = "eg_version"    -> <<"\\set eg_version '''", version, "'''", "\n">>
      [] by = "begin"         -> <<"\n", "BEGIN", ";", "\n">>
      [] by = "commit"        -> <<"COMMIT", ";", "\n", "\n">>
      [] by = "moved_start"   -> <<"-- Start of moved upgrades", "\n">>
      [] by = "moved_end"     -> <<"-- End of moved upgrades", "\n", "\n">>
      [] by = "auditor1"      -> <<"-- Update auditor tables to catch changes in source tables.",
                                   "\n">>
      [] by = "auditor2"      -> <<"-- Can be removed/skipped if there were no schema changes.",
                                   "\n">>
      [] by = "auditor3"      -> <<"SELECT auditor.update_auditors();", "\n">>
      [] by = "append_start"  -> <<"\n", "-- Start of appended code", "\n">>
      [] by = "append_end"    -> <<"-- End of appended code", "\n">>

TheContent(path) == CHOOSE c \in ContentsOf(path) : TRUE

\* the bytes of the file of a run that completes
ExpectedBytes ==
    LET plan == ExpectedPlan
    IN  Flatten([k \in 1..Len(plan) |->
                   IF plan[k].mode = "lit" THEN SpecText(plan[k].by)
                   ELSE IF plan[k].mode = "whole" THEN TheContent(plan[k].path)
                   ELSE Stripped(TheContent(plan[k].path))])

Written(d) == [k \in 1..Len(d.chunks) |-> W(d.chunks[k].by, d.chunks[k].path, d.chunks[k].mode)]
WrittenBy(by) == {k \in 1..Len(disk.chunks) : disk.chunks[k].by = by}
AllComplete == \A k \in 1..Len(disk.chunks) : disk.chunks[k].complete

Completed == pc = "exit" /\ exit_code = 0

PreErrors ==
    {"Current directory is not a git repository", "head is not a branch",
     "Not in an Evergreen repository, exiting", "Error finding from branch",
     "Specify the new Evergreen version with -v [version]",
     "Specify the old Evergreen version with -F [version]",
     "Output file exists, exiting", "path not found",
     "No upgrades were found. Nothing to do.", "File::create failed"}

AssemblyErrors ==
    {"Error prepending file", "Error writing upgrade", "Error writing moved upgrade",
     "Error appending file", "Unable to write to output"}

ReviewErrors == {"environment variable not found", "spawn failed"}

ChecksPassed ==
    /\ repository = "ok"
    /\ to_branch \in HeadNames
    /\ from_branch \in FromNames
    /\ version # ""
    /\ from_version # ""
    /\ Len(upgrades) > 0

---------------------------------------------------------------------------
(* The claims *)

\* C1: get_upgrades returns exactly the paths of the target list B that occur
\* nowhere in the source list A, in B's order (the result is B read at the
\* increasing positions whose path is not in A), and diff(A, A) is empty.
C1_DiffExact ==
    (d_pc = "done" /\ d_res.ok) =>
        LET A == Walk(d_from.entries)
            B == Walk(d_to.entries)
            J == SortedSeq({j \in 1..Len(B) : \A m \in 1..Len(A) : A[m] # B[j]})
        IN  /\ d_res.val = [k \in 1..Len(J) |-> B[J[k]]]
            /\ (d_from = d_to => d_res.val = <<>>)

\* a diff that drops some target paths and keeps several, one of them twice
C1_Witness ==
    /\ d_pc = "done" /\ d_res.ok
    /\ Len(d_res.val) >= 2
    /\ Len(d_res.val) < Len(Walk(d_to.entries))
    /\ Walk(d_from.entries) # <<>>

\* C2 (as claimed): a snapshot without the upgrade directory enumerates to the
\* empty list, so that get_upgrades succeeds and every target upgrade is new.
C2_Original ==
    (d_pc = "done" /\ d_from.dir = "absent" /\ d_to.dir = "tree") =>
        (d_res.ok /\ d_res.val = Walk(d_to.entries))

\* C2 (amended): a snapshot without the upgrade directory makes the
\* enumeration, and get_upgrades with it, return an error; the empty list is
\* what a path that exists but is no directory enumerates to, and then every
\* target upgrade is new.
C2_MissingDirIsError ==
    d_pc = "done" =>
        /\ (d_from.dir = "absent" \/ d_to.dir = "absent") => (~d_res.ok /\ d_res.val = <<>>)
        /\ (d_from.dir = "blob" /\ d_to.dir # "absent") =>
              (d_res.ok /\ d_res.val = Walk(d_to.entries))
        /\ (d_from.dir # "absent" /\ d_to.dir = "blob") => (d_res.ok /\ d_res.val = <<>>)

C2_Witness ==
    /\ d_pc = "done"
    /\ d_from.dir = "absent"
    /\ d_to.dir = "tree" /\ Len(d_to.entries) >= 2
    /\ ~d_res.ok

\* C7: write_upgrade writes, in order and each followed by a newline, exactly
\* the lines of the file that do not begin with BEGIN; or COMMIT;, and
\* write_file writes the file's content unchanged.
C7_FileWriters ==
    /\ fw_pc = "write_upgrade" => fw_out = Stripped(fw_in)
    /\ fw_pc = "write_file" => fw_out = fw_in

\* BEGIN;, SELECT 1;, COMMIT; gives SELECT 1; alone
C7_Witness ==
    /\ fw_pc = "write_upgrade"
    /\ fw_in = FileBoth
    /\ fw_out = <<"x", "\n">>

\* C3: a run that completes has written, in this order and nothing else: the
\* prepend section, the direction comment, the eg_version directive, BEGIN;,
\* the main upgrades in upgrade mode, COMMIT;, the moved section, the three
\* auditor lines, the append section; one BEGIN; and one COMMIT; are the
\* assembler's, every main upgrade lies between them and every moved upgrade
\* after the COMMIT;.
C3_WriteOrder ==
    Completed =>
        /\ Written(disk) = ExpectedPlan
        /\ AllComplete
        /\ Cardinality(WrittenBy("begin")) = 1
        /\ Cardinality(WrittenBy("commit")) = 1
        /\ \A b \in WrittenBy("begin"), c \in WrittenBy("commit") :
              /\ \A u \in WrittenBy("upgrade") : b < u /\ u < c
              /\ \A m \in WrittenBy("moved_file") : c < m

\* a completed run with all three optional sections and a main upgrade
C3_Witness ==
    /\ Completed
    /\ WrittenBy("prepend_end") # {}
    /\ WrittenBy("upgrade") # {}
    /\ WrittenBy("moved_end") # {}
    /\ WrittenBy("append_end") # {}

\* C4: in a completed run every new upgrade was copied exactly once (a path
\* as often as the new-upgrade list holds it): in the
\* transactional body in upgrade mode (marker lines stripped) iff its path does
\* not match the move pattern, else in the moved section as the whole file
\* (marker lines kept); both sections keep the order of the new-upgrade list.
C4_Partition ==
    Completed =>
        LET cs    == disk.chunks
            main  == SelectSeq(cs, LAMBDA c : c.by = "upgrade")
            mvd   == SelectSeq(cs, LAMBDA c : c.by = "moved_file")
        IN  /\ \A p \in Range(upgrades) :
                  Cardinality({j \in 1..Len(cs) : cs[j].path = p})
                    = Cardinality({k \in 1..Len(upgrades) : upgrades[k] = p})
            /\ Len(main) + Len(mvd) = Len(upgrades)
            /\ [k \in 1..Len(main) |-> main[k].path] = MainPaths
            /\ [k \in 1..Len(mvd) |-> mvd[k].path] = MovedPaths
            /\ \A k \in 1..Len(main) :
                  /\ main[k].mode = "upgrade"
                  /\ main[k].text = Stripped(main[k].src)
            /\ \A k \in 1..Len(mvd) :
                  /\ mvd[k].mode = "whole"
                  /\ mvd[k].text = mvd[k].src

\* three new upgrades, the second moved with its BEGIN; kept, the others in
\* the body
C4_Witness ==
    /\ Completed
    /\ Len(upgrades) = 3
    /\ MainPaths = <<upgrades[1], upgrades[3]>>
    /\ MovedPaths = <<upgrades[2]>>
    /\ \E k \in WrittenBy("moved_file") : "BEGIN" \in Range(disk.chunks[k].text)
    /\ \E k \in WrittenBy("upgrade") :
          /\ "BEGIN" \in Range(disk.chunks[k].src)
          /\ "BEGIN" \notin Range(disk.chunks[k].text)

\* C5: with a file at the output path and no clobber, the file is never opened
\* and keeps its content, and the run does not exit 0.
C5_NoClobber ==
    (disk0.exists /\ ~cli.clobber) =>
        /\ disk = disk0
        /\ outfile = "none"
        /\ exit_code # 0
        /\ (pc = "exit" => exit_code > 0)

\* the run that reaches the existence check and stops there
C5_Witness ==
    /\ disk0.exists /\ ~cli.clobber
    /\ pc = "exit" /\ exit_code = 1
    /\ stderr = "Output file exists, exiting"
    /\ Bytes(disk) = Bytes(FileOf(<<OldChunk>>))

\* C6: the output file is created or truncated only after every pre-assembly
\* check has passed; a run that fails one of them, the empty new-upgrade list
\* included, exits non-zero and leaves the output path as it was.
C6_CreateAfterChecks ==
    /\ (outfile # "none" \/ disk # disk0) => ChecksPassed
    /\ stderr \in PreErrors =>
          /\ pc = "exit" /\ exit_code > 0
          /\ disk = disk0
          /\ outfile = "none"
    /\ (pc = "exit" /\ ~ChecksPassed) => (exit_code > 0 /\ disk = disk0)

\* nothing to do: no file is created
C6_Witness ==
    /\ stderr = "No upgrades were found. Nothing to do."
    /\ pc = "exit" /\ exit_code = 1
    /\ ~disk0.exists /\ ~disk.exists

\* C8: no prepend marker or file without a prepend-file list, no moved marker
\* or file when no new upgrade matches a move pattern (or none is given), no
\* append marker or file without an append-file list.
C8_SectionsOmitted ==
    LET toks == Range(Bytes(disk))
    IN  /\ ~cli.prepend_file.some =>
              /\ WrittenBy("prepend_start") \cup WrittenBy("prepend_file")
                    \cup WrittenBy("prepend_end") = {}
              /\ toks \cap {"-- Start of prepended code", "-- End of prepended code"} = {}
        /\ (\A k \in 1..Len(upgrades) : ~movedre_is_match(upgrades[k])) =>
              /\ WrittenBy("moved_start") \cup WrittenBy("moved_file")
                    \cup WrittenBy("moved_end") = {}
              /\ toks \cap {"-- Start of moved upgrades", "-- End of moved upgrades"} = {}
        /\ ~cli.append_file.some =>
              /\ WrittenBy("append_start") \cup WrittenBy("append_file")
                    \cup WrittenBy("append_end") = {}
              /\ toks \cap {"-- Start of appended code", "-- End of appended code"} = {}

\* a completed run with a move pattern that matches none of its two new
\* upgrades and no prepend or append list
C8_Witness ==
    /\ Completed
    /\ ~cli.prepend_file.some /\ ~cli.append_file.some
    /\ cli.moved = Some(<<PatData>>)
    /\ Len(upgrades) = 2
    /\ Written(disk) = <<L("direction"), L("eg_version"), L("begin")>>
                          \o Files("upgrade", upgrades, "upgrade")
                          \o <<L("commit"), L("auditor1"), L("auditor2"), L("auditor3")>>

\* C9: a read or write that fails during assembly ends the run there with a
\* non-zero exit: the file is left on disk holding a prefix of what the
\* completed run writes (nothing was written twice, nothing after the failed
\* step), the handle was never closed for a later step and the editor is not
\* launched.
C9_AbortOnIoError ==
    stderr \in AssemblyErrors =>
        /\ pc = "exit" /\ exit_code > 0
        /\ disk.exists
        /\ outfile = "open"
        /\ editor = "none"
        /\ IsPrefix(Bytes(disk), ExpectedBytes)
        /\ IsPrefix(Written(disk), ExpectedPlan)
        /\ \A k \in 1..(Len(disk.chunks) - 1) : disk.chunks[k].complete

\* the second moved upgrade cannot be read: the file holds the run up to the
\* first one
C9_Witness ==
    /\ stderr = "Error writing moved upgrade"
    /\ pc = "exit" /\ exit_code = 1
    /\ Len(MovedPaths) = 2
    /\ Cardinality(WrittenBy("moved_file")) = 1
    /\ AllComplete
    /\ Bytes(disk) # ExpectedBytes

\* C10: the editor is launched only on request, with the handle closed and the
\* whole file written; the file is the completed one whenever the launch was
\* tried, and a launch that fails exits non-zero with that file on disk.
C10_ReviewAfterClose ==
    /\ editor # "none" => cli.review
    /\ (editor # "none" \/ stderr \in ReviewErrors) =>
          /\ outfile = "closed"
          /\ Written(disk) = ExpectedPlan
          /\ AllComplete
          /\ Bytes(disk) = ExpectedBytes
    /\ (editor = "failed" \/ stderr \in ReviewErrors) => (pc = "exit" /\ exit_code > 0)
    /\ outfile = "closed" => Bytes(disk) = ExpectedBytes

\* the spawn fails after the file was completed
C10_Witness ==
    /\ editor = "failed"
    /\ pc = "exit" /\ exit_code = 1
    /\ disk.exists /\ Bytes(disk) = ExpectedBytes
    /\ WrittenBy("append_end") # {}

=============================================================================
